---- MODULE Spec2Model ----
(***************************************************************************)
(* The DDL safety and execution pipeline of skeema's applier package:      *)
(* NewDDLStatement (internal/applier/ddlstatement.go) and its helpers      *)
(* needTableSize, getTableSize, getWrapper and getConnectParams.           *)
(*                                                                         *)
(* One construction is modelled as a sequential process whose position pc  *)
(* advances from one collaborator call to the next, while the database     *)
(* table it inspects may change underneath it (EnvChange).  A returned     *)
(* statement is then put to use by Execute, Statement and ClientState      *)
(* calls in any order (UseSpec).                                           *)
(*                                                                         *)
(* Text is a sequence of tokens.  Wrapper templates are sequences of       *)
(* single characters (needTableSize searches them for a substring);        *)
(* statement and error text are sequences of words and separators.         *)
(* Byte-size options range over values below 2^63, where the int64()       *)
(* conversions of lines 57 and 183 preserve the value.                     *)
(***************************************************************************)
EXTENDS Integers, Sequences, FiniteSets, TLC

\* ------------------------------------------------------------------ bounds

\* Largest size, in storage units, the catalog reports for a table.
MaxSize == 2
\* Largest well-formed value of a byte-size option.
MaxBytes == 1

\* ------------------------------------------------------- text as sequences

\* strings.Contains on character sequences: needle occurs contiguously.
Contains(hay, needle) ==
    \E i \in 0..(Len(hay) - Len(needle)) :
        \A j \in 1..Len(needle) : hay[i + j] = needle[j]

\* strings.ToUpper on one character; letters outside the alphabet the
\* templates use are not needed.
UpperChar(c) ==
    CASE c = "s" -> "S"
      [] c = "i" -> "I"
      [] c = "z" -> "Z"
      [] c = "e" -> "E"
      [] c = "w" -> "W"
      [] c = "a" -> "A"
      [] OTHER -> c

\* strings.ToUpper on a character sequence.
ToUpper(s) == [i \in 1..Len(s) |-> UpperChar(s[i])]

\* The placeholder needTableSize looks for.
SizePlaceholder == <<"{", "S", "I", "Z", "E", "}">>

\* strconv.FormatInt(n, 10) for n >= 0: decimal digits, most significant first.
Digit(d) ==
    CASE d = 0 -> "0" [] d = 1 -> "1" [] d = 2 -> "2" [] d = 3 -> "3"
      [] d = 4 -> "4" [] d = 5 -> "5" [] d = 6 -> "6" [] d = 7 -> "7"
      [] d = 8 -> "8" [] OTHER -> "9"

RECURSIVE FormatInt(_)
FormatInt(n) ==
    IF n < 10 THEN <<Digit(n)>>
    ELSE FormatInt(n \div 10) \o <<Digit(n % 10)>>

\* ---------------------------------------------------------------- inputs

ObjectTypeTable == "table"
ObjectTypeDatabase == "database"
ObjectTypeProc == "procedure"

DiffTypeCreate == "CREATE"
DiffTypeAlter == "ALTER"
DiffTypeDrop == "DROP"

\* What the diff's renderer does with it: plain text, text that is
\* destructive, no text at all, or a failure of its own.
RenderKinds == {"safe", "unsafe", "empty", "error"}

\* The shapes of diff: object key, diff type, whether the diff type
\* implements Compounder and what it reports, whether an ALTER TABLE adds
\* foreign keys.
DiffShapes ==
    {[type |-> ObjectTypeTable, diffType |-> dt, compounder |-> FALSE,
      isCompound |-> FALSE, addFKs |-> fk] :
        dt \in {DiffTypeCreate, DiffTypeDrop}, fk \in {FALSE}}
    \cup
    {[type |-> ObjectTypeTable, diffType |-> DiffTypeAlter, compounder |-> FALSE,
      isCompound |-> FALSE, addFKs |-> fk] : fk \in BOOLEAN}
    \cup
    {[type |-> ObjectTypeDatabase, diffType |-> dt, compounder |-> FALSE,
      isCompound |-> FALSE, addFKs |-> FALSE] :
        dt \in {DiffTypeCreate, DiffTypeDrop}}
    \cup
    {[type |-> ObjectTypeProc, diffType |-> DiffTypeCreate, compounder |-> TRUE,
      isCompound |-> c, addFKs |-> FALSE] : c \in BOOLEAN}
    \cup
    {[type |-> ObjectTypeProc, diffType |-> DiffTypeDrop, compounder |-> TRUE,
      isCompound |-> FALSE, addFKs |-> FALSE]}

Diffs ==
    {[shape |-> s, render |-> r] : s \in DiffShapes, r \in RenderKinds}

\* tengo.StatementModifiers: the fields this pipeline reads or writes.
Modifiers ==
    {[AllowUnsafe |-> u, AlgorithmClause |-> c[1], LockClause |-> c[2]] :
        u \in BOOLEAN, c \in {<<"", "">>, <<"INPLACE", "NONE">>}}

\* A byte-size option's text: a well-formed size, or text GetBytes rejects.
Malformed == [valid |-> FALSE, bytes |-> 0]
ByteValues == {[valid |-> TRUE, bytes |-> n] : n \in 0..MaxBytes} \cup {Malformed}

\* Wrapper templates, character by character.
NoTemplate == <<>>
DdlTemplates ==
    {NoTemplate,
     <<"w", " ", "{", "S", "I", "Z", "E">>,
     <<"w", " ", "{", "s", "i", "z", "e", "}">>}
AlterTemplates ==
    {NoTemplate,
     <<"a", " ", "{", "S", "i", "z", "e", "}">>,
     <<"a", " ", "{", "z", "}">>}

\* connect-options values: one that validates, one that does not.
ValidConnectOptions == "wait_timeout=5"
InvalidConnectOptions == "wait_timeout="
ConnectOptionValues == {ValidConnectOptions, InvalidConnectOptions}

\* An option no step has read yet.  foreign-key-checks and connect-options
\* are read once, in the last step of a construction; the configuration is
\* read-only, so the model draws their values where they are read.
Unread == "unread"

\* The options of the configuration this pipeline looks up.
Configs ==
    {("safe-below-size" :> sbs) @@ ("alter-wrapper-min-size" :> awms) @@
     ("ddl-wrapper" :> dw) @@ ("alter-wrapper" :> aw) @@
     ("foreign-key-checks" :> Unread) @@ ("connect-options" :> Unread) @@
     ("user" :> "root") @@ ("password" :> "pw") @@ ("environment" :> "production") :
        sbs \in ByteValues, awms \in ByteValues,
        dw \in DdlTemplates, aw \in AlterTemplates}

\* Every option's default: sizes 0, templates empty.
OptionDefault(opt) ==
    CASE opt \in {"safe-below-size", "alter-wrapper-min-size"} ->
             [valid |-> TRUE, bytes |-> 0]
      [] opt \in {"ddl-wrapper", "alter-wrapper"} -> NoTemplate
      [] opt = "foreign-key-checks" -> FALSE
      [] OTHER -> ""

\* mybase Config.Get: the option's text.
Get(cfg, opt) == cfg[opt]

\* mybase Config.Changed: the option was set to something other than its
\* default.
Changed(cfg, opt) == cfg[opt] # OptionDefault(opt)

\* mybase Config.GetBytes: the size, or an error for malformed text.
GetBytes(cfg, opt) ==
    IF cfg[opt].valid THEN [n |-> cfg[opt].bytes, ok |-> TRUE]
    ELSE [n |-> 0, ok |-> FALSE]

\* mybase Config.GetBool.
GetBool(cfg, opt) == cfg[opt]

\* tengo.Instance: the fields read for the variable context.
Instances ==
    {[Host |-> "db1", Port |-> 3306, SocketPath |-> ""],
     [Host |-> "localhost", Port |-> 0, SocketPath |-> "/tmp/mysql.sock"]}

\* applier.Target: instance, schema name and directory.
Targets ==
    {[Instance |-> i, SchemaName |-> "app",
      Dir |-> [BaseName |-> "schemas", Path |-> "/srv/schemas"]] : i \in Instances}

\* The table as the database holds it: whether it has rows, and the size
\* the storage catalog reports, which is never 0: an empty table is reported
\* at the minimum.
DBStates ==
    {[rows |-> FALSE, size |-> 1]} \cup {[rows |-> TRUE, size |-> s] : s \in 1..MaxSize}

\* The terminal widths util.TerminalWidth may report for stderr: 0 when it
\* is no terminal, a narrow one and a wide one.
TermWidths == {0, 40, 200}

\* ---------------------------------------------------------------- errors

NoError == [kind |-> "nil", text |-> <<>>]
\* An error a collaborator returned, passed on as it is.
Propagated(from) == [kind |-> "propagated", text |-> <<from>>]
\* applier.ConfigError wrapping an error's text.
ConfigError(from) == [kind |-> "ConfigError", text |-> <<from>>]

\* ------------------------------------------------------- the diff's renderer

\* ObjectKey().Name
ObjectName(d) ==
    CASE d.shape.type = ObjectTypeTable -> "t1"
      [] d.shape.type = ObjectTypeDatabase -> "app"
      [] OTHER -> "p1"

\* ObjectType.Caps()
Caps(type) ==
    CASE type = ObjectTypeTable -> "TABLE"
      [] type = ObjectTypeDatabase -> "DATABASE"
      [] OTHER -> "PROCEDURE"

\* Words joined by single spaces.
RECURSIVE JoinWords(_)
JoinWords(ws) ==
    IF Len(ws) = 0 THEN <<>>
    ELSE IF Len(ws) = 1 THEN ws
    ELSE <<Head(ws), " ">> \o JoinWords(Tail(ws))

\* The words of a text: its tokens other than separators.
IsSeparator(tok) == tok \in {" ", "\n", "  # "}
Words(text) == SelectSeq(text, LAMBDA tok : ~IsSeparator(tok))

\* TableDiff.Clauses(mods): the clauses of an ALTER TABLE, with the
\* ALGORITHM and LOCK clauses the modifiers ask for.
ClauseWords(d, m) ==
    IF d.shape.type = ObjectTypeTable /\ d.shape.diffType = DiffTypeAlter
    THEN (IF m.AlgorithmClause # "" THEN <<"ALGORITHM=" \o m.AlgorithmClause \o ",">> ELSE <<>>)
         \o (IF m.LockClause # "" THEN <<"LOCK=" \o m.LockClause \o ",">> ELSE <<>>)
         \o (IF d.render = "unsafe" THEN <<"DROP", "COLUMN", "c1">>
             ELSE IF d.shape.addFKs THEN <<"ADD", "FOREIGN", "KEY", "fk1">>
             ELSE <<"ADD", "COLUMN", "c1">>)
    ELSE IF d.shape.isCompound THEN <<"BEGIN", "SELECT", "1;", "END">>
    ELSE <<>>

\* The statement's text under the modifiers.
StatementText(d, m) ==
    JoinWords(<<d.shape.diffType, Caps(d.shape.type), ObjectName(d)>> \o ClauseWords(d, m))

\* ObjectDiff.Statement(mods): the text and the error.  A destructive
\* statement is refused, with its text, unless the modifiers allow it.
Statement(d, m) ==
    CASE d.render = "error" -> [stmt |-> <<>>, err |-> Propagated("Statement")]
      [] d.render = "empty" -> [stmt |-> <<>>, err |-> NoError]
      [] d.render = "unsafe" /\ ~m.AllowUnsafe ->
             [stmt |-> StatementText(d, m),
              err |-> [kind |-> "ForbiddenDiff", text |-> <<"Statement">>]]
      [] OTHER -> [stmt |-> StatementText(d, m), err |-> NoError]

\* tengo.IsForbiddenDiff
IsForbiddenDiff(err) == err.kind = "ForbiddenDiff"

\* tengo.TableDiff.Clauses(mods): the clause text and an error.  It renders
\* the clauses Statement renders for an ALTER TABLE, so it fails exactly
\* when Statement does; other table diffs have no clauses.
Clauses(d, m) ==
    [text |-> JoinWords(ClauseWords(d, m)),
     err |-> IF d.shape.diffType = DiffTypeAlter THEN Statement(d, m).err ELSE NoError]

\* ------------------------------------------------------------ word wrapping

\* Width of a token, in characters.
Width(tok) == Len(tok)

\* util.WrapStringWithPadding(s, lim, padder): a space before a word that
\* would cross column lim becomes a line break followed by the padding; a
\* limit below 1 wraps nothing.
RECURSIVE WrapFrom(_, _, _, _, _)
WrapFrom(text, i, col, lim, padder) ==
    IF i > Len(text) THEN <<>>
    ELSE IF text[i] = " " /\ i < Len(text) /\ lim >= 1
            /\ col + 1 + Width(text[i + 1]) > lim
    THEN <<"\n", padder, text[i + 1]>>
         \o WrapFrom(text, i + 2, Width(text[i + 1]), lim, padder)
    ELSE <<text[i]>> \o WrapFrom(text, i + 1, col + Width(text[i]), lim, padder)

WrapStringWithPadding(text, lim, padder) == WrapFrom(text, 1, 0, lim, padder)

\* ------------------------------------------------- helpers of the pipeline

\* A plausible slip: the placeholder is matched in upper case only.
needTableSizeCaseSensitive(d, cfg) ==
    IF d.shape.type # ObjectTypeTable THEN FALSE
    ELSE IF d.shape.diffType = DiffTypeCreate THEN FALSE
    ELSE IF \E opt \in {"safe-below-size", "alter-wrapper-min-size"} : Changed(cfg, opt)
    THEN TRUE
    ELSE \E opt \in {"alter-wrapper", "ddl-wrapper"} :
             Contains(Get(cfg, opt), SizePlaceholder)

\* needTableSize(diff, config)
needTableSize(d, cfg) ==
    IF d.shape.type # ObjectTypeTable THEN FALSE
    ELSE IF d.shape.diffType = DiffTypeCreate THEN FALSE
    ELSE IF \E opt \in {"safe-below-size", "alter-wrapper-min-size"} : Changed(cfg, opt)
    THEN TRUE
    ELSE \E opt \in {"alter-wrapper", "ddl-wrapper"} :
             Contains(ToUpper(Get(cfg, opt)), SizePlaceholder)

\* A plausible slip: a table exactly at the threshold counts as below it.
ApplySafeBelowSizeInclusive(m, size, safeBelowSize) ==
    IF size <= safeBelowSize THEN [m EXCEPT !.AllowUnsafe = TRUE] ELSE m

\* A plausible slip: the comparison is made and the override not set.
ApplySafeBelowSizeDropped(m, size, safeBelowSize) == m

\* Lines 57-58: the modifiers after the safe-below-size comparison.
ApplySafeBelowSize(m, size, safeBelowSize) ==
    IF size < safeBelowSize THEN [m EXCEPT !.AllowUnsafe = TRUE] ELSE m

\* A plausible slip: a table exactly at the threshold is not big enough.
getWrapperStrictlyAbove(cfg, d, size, m) ==
    IF d.shape.type = ObjectTypeTable /\ d.shape.diffType = DiffTypeAlter
       /\ Changed(cfg, "alter-wrapper")
    THEN LET minSize == GetBytes(cfg, "alter-wrapper-min-size") IN
         IF ~minSize.ok
         THEN [wrapper |-> NoTemplate, mods |-> m,
               err |-> ConfigError("alter-wrapper-min-size")]
         ELSE IF size > minSize.n
         THEN [wrapper |-> Get(cfg, "alter-wrapper"),
               mods |-> IF minSize.n > 0
                        THEN [m EXCEPT !.AlgorithmClause = "", !.LockClause = ""]
                        ELSE m,
               err |-> NoError]
         ELSE [wrapper |-> Get(cfg, "ddl-wrapper"), mods |-> m, err |-> NoError]
    ELSE [wrapper |-> Get(cfg, "ddl-wrapper"), mods |-> m, err |-> NoError]

\* A plausible slip: the clauses are cleared before the size is compared.
getWrapperClearsFirst(cfg, d, size, m) ==
    IF d.shape.type = ObjectTypeTable /\ d.shape.diffType = DiffTypeAlter
       /\ Changed(cfg, "alter-wrapper")
    THEN LET minSize == GetBytes(cfg, "alter-wrapper-min-size")
             cleared == IF minSize.n > 0
                        THEN [m EXCEPT !.AlgorithmClause = "", !.LockClause = ""]
                        ELSE m
         IN
         IF ~minSize.ok
         THEN [wrapper |-> NoTemplate, mods |-> m,
               err |-> ConfigError("alter-wrapper-min-size")]
         ELSE IF size >= minSize.n
         THEN [wrapper |-> Get(cfg, "alter-wrapper"), mods |-> cleared, err |-> NoError]
         ELSE [wrapper |-> Get(cfg, "ddl-wrapper"), mods |-> cleared, err |-> NoError]
    ELSE [wrapper |-> Get(cfg, "ddl-wrapper"), mods |-> m, err |-> NoError]

\* getWrapper(config, diff, tableSize, &mods): the template, the modifiers
\* as it leaves them, and whether it succeeded.
getWrapper(cfg, d, size, m) ==
    IF d.shape.type = ObjectTypeTable /\ d.shape.diffType = DiffTypeAlter
       /\ Changed(cfg, "alter-wrapper")
    THEN LET minSize == GetBytes(cfg, "alter-wrapper-min-size") IN
         IF ~minSize.ok
         THEN [wrapper |-> NoTemplate, mods |-> m,
               err |-> ConfigError("alter-wrapper-min-size")]
         ELSE IF size >= minSize.n
         THEN [wrapper |-> Get(cfg, "alter-wrapper"),
               mods |-> IF minSize.n > 0
                        THEN [m EXCEPT !.AlgorithmClause = "", !.LockClause = ""]
                        ELSE m,
               err |-> NoError]
         ELSE [wrapper |-> Get(cfg, "ddl-wrapper"), mods |-> m, err |-> NoError]
    ELSE [wrapper |-> Get(cfg, "ddl-wrapper"), mods |-> m, err |-> NoError]

\* A plausible slip: foreign-key-checks is not consulted.
getConnectParamsUnasked(d, cfg) ==
    IF d.shape.type = ObjectTypeTable /\ d.shape.diffType = DiffTypeAlter
    THEN IF d.shape.addFKs
         THEN "readTimeout=0&foreign_key_checks=1"
         ELSE "readTimeout=0"
    ELSE IF d.shape.type = ObjectTypeTable /\ d.shape.diffType = DiffTypeDrop
    THEN "readTimeout=0"
    ELSE ""

\* A plausible slip: every drop, of whatever object, gets the timeout.
getConnectParamsAnyDrop(d, cfg) ==
    IF d.shape.type = ObjectTypeTable /\ d.shape.diffType = DiffTypeAlter
    THEN IF GetBool(cfg, "foreign-key-checks") /\ d.shape.addFKs
         THEN "readTimeout=0&foreign_key_checks=1"
         ELSE "readTimeout=0"
    ELSE IF d.shape.diffType = DiffTypeDrop
    THEN "readTimeout=0"
    ELSE ""

\* getConnectParams(diff, config)
getConnectParams(d, cfg) ==
    IF d.shape.type = ObjectTypeTable /\ d.shape.diffType = DiffTypeAlter
    THEN IF GetBool(cfg, "foreign-key-checks") /\ d.shape.addFKs
         THEN "readTimeout=0&foreign_key_checks=1"
         ELSE "readTimeout=0"
    ELSE IF d.shape.type = ObjectTypeTable /\ d.shape.diffType = DiffTypeDrop
    THEN "readTimeout=0"
    ELSE ""

\* A plausible slip: the hint names one remediation only.
ForbiddenErrorOneHint(stmt, terminalWidth) ==
    [kind |-> "error",
     text |-> <<"Preventing execution of unsafe or potentially destructive statement:",
                "\n", "  # ">>
              \o WrapStringWithPadding(stmt, terminalWidth - 29, "  # ")
              \o <<"\n", "Use ", "--allow-unsafe",
                   " to permit this operation. For more information, see Safety Options section of --help.">>]

\* Lines 71-73: the error NewDDLStatement returns for a forbidden statement.
ForbiddenError(stmt, terminalWidth) ==
    [kind |-> "error",
     text |-> <<"Preventing execution of unsafe or potentially destructive statement:",
                "\n", "  # ">>
              \o WrapStringWithPadding(stmt, terminalWidth - 29, "  # ")
              \o <<"\n", "Use ", "--allow-unsafe", " or ", "--safe-below-size",
                   " to permit this operation. For more information, see Safety Options section of --help.">>]

\* A plausible slip: every Compounder is taken to be compound.
IsCompoundStatementUnasked(d) == d.shape.compounder

\* Line 85: the diff is a Compounder and reports a compound statement.
IsCompoundStatement(d) == d.shape.compounder /\ d.shape.isCompound

\* ------------------------------------------------- the external command

\* util.RealConnectOptions: the options validated and normalised.
RealConnectOptions(text) ==
    IF text = InvalidConnectOptions
    THEN [value |-> "", ok |-> FALSE]
    ELSE [value |-> text, ok |-> TRUE]

\* A text value as a sequence of tokens: nothing for the empty string.
Text(str) == IF str = "" THEN <<>> ELSE <<str>>

\* A plausible slip: the port is given whether or not a socket is used.
VariablesPortAlways(d, m, tgt, cfg, schemaName, stmt, size, connOpts) ==
    LET inst == tgt.Instance
        socket == IF inst.SocketPath # "" THEN Text(inst.SocketPath) ELSE <<>>
        port == FormatInt(inst.Port)
        isTable == d.shape.type = ObjectTypeTable
    IN  ("HOST" :> Text(inst.Host)) @@ ("PORT" :> port) @@ ("SOCKET" :> socket) @@
        ("SCHEMA" :> Text(schemaName)) @@
        ("USER" :> Text(Get(cfg, "user"))) @@ ("PASSWORD" :> Text(Get(cfg, "password"))) @@
        ("ENVIRONMENT" :> Text(Get(cfg, "environment"))) @@
        ("DDL" :> stmt) @@
        ("CLAUSES" :> IF isTable THEN JoinWords(ClauseWords(d, m)) ELSE <<>>) @@
        ("NAME" :> Text(ObjectName(d))) @@
        ("TABLE" :> IF isTable THEN Text(ObjectName(d)) ELSE <<>>) @@
        ("SIZE" :> FormatInt(size)) @@
        ("TYPE" :> Text(d.shape.diffType)) @@
        ("CLASS" :> Text(Caps(d.shape.type))) @@
        ("CONNOPTS" :> Text(connOpts)) @@
        ("DIRNAME" :> Text(tgt.Dir.BaseName)) @@
        ("DIRPATH" :> Text(tgt.Dir.Path))

\* The variable context of NewDDLStatement.
Variables(d, m, tgt, cfg, schemaName, stmt, size, connOpts) ==
    LET inst == tgt.Instance
        socket == IF inst.SocketPath # "" THEN Text(inst.SocketPath) ELSE <<>>
        port == IF inst.SocketPath # "" THEN <<>> ELSE FormatInt(inst.Port)
        isTable == d.shape.type = ObjectTypeTable
    IN  ("HOST" :> Text(inst.Host)) @@ ("PORT" :> port) @@ ("SOCKET" :> socket) @@
        ("SCHEMA" :> Text(schemaName)) @@
        ("USER" :> Text(Get(cfg, "user"))) @@ ("PASSWORD" :> Text(Get(cfg, "password"))) @@
        ("ENVIRONMENT" :> Text(Get(cfg, "environment"))) @@
        ("DDL" :> stmt) @@
        ("CLAUSES" :> IF isTable THEN JoinWords(ClauseWords(d, m)) ELSE <<>>) @@
        ("NAME" :> Text(ObjectName(d))) @@
        ("TABLE" :> IF isTable THEN Text(ObjectName(d)) ELSE <<>>) @@
        ("SIZE" :> FormatInt(size)) @@
        ("TYPE" :> Text(d.shape.diffType)) @@
        ("CLASS" :> Text(Caps(d.shape.type))) @@
        ("CONNOPTS" :> Text(connOpts)) @@
        ("DIRNAME" :> Text(tgt.Dir.BaseName)) @@
        ("DIRPATH" :> Text(tgt.Dir.Path))

\* A variable's name, character by character, for the names the templates
\* of this model can spell.
NameChars(name) ==
    CASE name = "SIZE" -> <<"S", "I", "Z", "E">>
      [] name = "DDL" -> <<"D", "D", "L">>
      [] OTHER -> <<name>>

\* The first closing brace after position i, or 0.
ClosingBrace(t, i) ==
    IF \E j \in (i + 1)..Len(t) : t[j] = "}"
    THEN CHOOSE j \in (i + 1)..Len(t) :
             t[j] = "}" /\ \A k \in (i + 1)..(j - 1) : t[k] # "}"
    ELSE 0

\* A value as the shell takes it: quoted when it holds a separator.
EscapeVarValue(v) ==
    IF \E i \in 1..Len(v) : IsSeparator(v[i]) THEN <<"'">> \o v \o <<"'">> ELSE v

\* util.NewInterpolatedShellOut(command, variables): every {NAME} of the
\* template replaced by the variable's escaped value, names compared in
\* upper case; a name that is no variable is an error.
RECURSIVE Interpolate(_, _, _)
Interpolate(t, i, vars) ==
    IF i > Len(t) THEN [command |-> <<>>, ok |-> TRUE]
    ELSE LET j == IF t[i] = "{" THEN ClosingBrace(t, i) ELSE 0 IN
         IF j = 0
         THEN LET rest == Interpolate(t, i + 1, vars) IN
              [command |-> <<t[i]>> \o rest.command, ok |-> rest.ok]
         ELSE LET name == ToUpper(SubSeq(t, i + 1, j - 1))
                  keys == {k \in DOMAIN vars : NameChars(k) = name}
                  rest == Interpolate(t, j + 1, vars)
              IN  IF keys = {}
                  THEN [command |-> SubSeq(t, i, j) \o rest.command, ok |-> FALSE]
                  ELSE [command |-> EscapeVarValue(vars[CHOOSE k \in keys : TRUE])
                                    \o rest.command,
                        ok |-> rest.ok]

NewInterpolatedShellOut(command, vars) == Interpolate(command, 1, vars)

\* The table when the construction starts; EnvChange takes it anywhere.
InitialTable == [rows |-> FALSE, size |-> 1]

\* ----------------------------------------------------------------- state

VARIABLES
    diff,        \* the diff handed to NewDDLStatement
    callerMods,  \* the caller's modifiers value
    config,      \* target.Dir.Config
    target,      \* the target
    db,          \* the table on the instance, as it is now
    pc,          \* where the construction stands
    mods,        \* NewDDLStatement's own modifiers (its by-value parameter)
    hasRows,     \* getTableSize's local hasRows: "unset" before the row check
    tableSize,   \* the local tableSize
    wrapper,     \* the local wrapper
    ddl,         \* the DDLStatement under construction
    ret,         \* what NewDDLStatement returned, once pc = "done"
    calls,       \* the collaborator calls made so far, in order
    sizeUses,    \* each use of a table size so far: <<use, value>>
    renderedWith, \* the modifiers diff.Statement was called with
    failed,      \* the collaborators that returned an error so far, in order
    shellVariables, \* the local variables map, once it is built
    executes,    \* how many Execute calls the returned statement has had
    lastExec,    \* the last Execute call: what it did and what it returned
    stmtResult,  \* what the last Statement() call returned
    csResult,    \* what the last ClientState() call returned
    reservedWordsByFlavor, \* tengo's package variable: the maps built so far
    keywordMutex, \* tengo's package mutex: the thread holding it, 0 if free
    rwm,         \* the ReservedWordMap calls in progress and their results
    history,     \* the modifiers the caller first passed, and earlier outcomes
    dockerd,     \* the Docker daemon: the container of the name asked for
    goc          \* the GetOrCreateInstance call in progress

vars == <<diff, callerMods, config, target, db, pc, mods, hasRows, tableSize,
          wrapper, ddl, ret, calls, sizeUses, renderedWith, failed, shellVariables,
          executes, lastExec, stmtResult, csResult, history,
          reservedWordsByFlavor, keywordMutex, rwm, dockerd, goc>>

\* The state of NewDDLStatement and of the statement it returns.
construction ==
    <<diff, callerMods, config, target, db, pc, mods, hasRows, tableSize,
      wrapper, ddl, ret, calls, sizeUses, renderedWith, failed, shellVariables,
      executes, lastExec, stmtResult, csResult, history>>

\* The state of the other packages, which a construction does not touch.
elsewhere == <<reservedWordsByFlavor, keywordMutex, rwm, dockerd, goc>>

\* The Docker client's state, which ReservedWordMap does not touch.
tengoDocker == <<dockerd, goc>>

\* The reserved-word maps' state, which the Docker client does not touch.
tengoKeywords == <<reservedWordsByFlavor, keywordMutex, rwm>>

inputs == <<diff, callerMods, config, target>>

\* What the caller has after a construction: what the calls on the returned
\* statement left behind, and the outcomes of earlier constructions.
use == <<executes, lastExec, stmtResult, csResult, history>>

\* No variables map: the shell-out branch has not been reached.
NoVariables == [k \in {} |-> <<>>]

\* No call of the kind has been made yet.
NoCall == [called |-> FALSE]

\* The nil *tengo.Instance.
NilInstance == [Host |-> "", Port |-> 0, SocketPath |-> ""]

NoShellOut == [present |-> FALSE, command |-> <<>>]

\* The zero DDLStatement.
ZeroDDL ==
    [stmt |-> <<>>, compound |-> FALSE, shellOut |-> NoShellOut,
     instance |-> NilInstance, schemaName |-> "", connectParams |-> ""]

\* ------------------------------------------------- tengo.ReservedWordMap

\* How many threads call ReservedWordMap.
MaxThreads == 2
\* How many calls of ReservedWordMap are made in all.
MaxCalls == 3

Threads == 1..MaxThreads
\* The flavors asked for.
Flavors == {"mysql:8.0", "mariadb:10.6"}

\* The nil map; a map made by make() is named by a number from 1.
NilMap == 0

\* Lines 18-21: reservedWordsByFlavor is nil and keywordMutex unlocked.  made
\* says the outer map exists; byFlavor is what it holds; writes lists, for
\* each flavor, every map stored under it, oldest first.
RwmInit ==
    /\ reservedWordsByFlavor =
           [made |-> FALSE, byFlavor |-> [f \in Flavors |-> NilMap],
            writes |-> [f \in Flavors |-> <<>>]]
    /\ keywordMutex = 0
    /\ rwm = [pc |-> [t \in Threads |-> "idle"],
              flavor |-> [t \in Threads |-> "mysql:8.0"],
              local |-> [t \in Threads |-> NilMap],
              visible |-> [t \in Threads |-> [f \in Flavors |-> 0]],
              calls |-> 0,
              built |-> 0,
              returned |-> {},
              crashed |-> FALSE]

\* ---------------------------------------------------- tengo.DockerClient

\* The images a container of the name may have been made from.  A container
\* may report its image by digest; the digest's image then carries a tag.
\* The flavor is what the database inside reports.
ContainerImages ==
    {[image |-> "mysql:8.0", digest |-> FALSE, repoTag |-> "mysql:8.0",
      flavor |-> "mysql:8.0", family |-> "mysql"],
     [image |-> "sha256:1f2e", digest |-> TRUE, repoTag |-> "mysql:8.0",
      flavor |-> "mysql:8.0", family |-> "mysql"],
     [image |-> "percona:8.0", digest |-> FALSE, repoTag |-> "percona:8.0",
      flavor |-> "percona:8.0", family |-> "percona"]}

\* opts.Image: blank, or the image wanted.
RequestedImages == {"", "mysql:8.0", "mysql"}

\* The mapped host port of a started container; 0 while there is none.
MappedPort == 32768

\* No container of the name exists.
NoContainer ==
    [exists |-> FALSE, running |-> FALSE, port |-> 0,
     made |-> [image |-> "", digest |-> FALSE, repoTag |-> "",
               flavor |-> "", family |-> ""]]

\* The containers of the name that may exist before the call.
Containers ==
    {NoContainer}
    \cup {[exists |-> TRUE, running |-> r, port |-> IF r THEN p ELSE 0, made |-> i] :
             r \in BOOLEAN, p \in {0, MappedPort}, i \in ContainerImages}

\* The errors of the Docker client and of the connection.
NoSuchContainer == [kind |-> "NoSuchContainer", text |-> <<"No such container">>]
ContainerAlreadyRunning ==
    [kind |-> "ContainerAlreadyRunning", text |-> <<"Container already running">>]
DaemonError == [kind |-> "error", text |-> <<"docker daemon failed">>]
ConnectError == [kind |-> "error", text |-> <<"cannot connect">>]
PortMappingError ==
    [kind |-> "error", text |-> <<"Unable to find port mapping for container">>]
UnexpectedImageError ==
    [kind |-> "error", text |-> <<"Container based on unexpected image">>]
EmptyImageError ==
    [kind |-> "error", text |-> <<"CreateInstance: image cannot be empty string">>]

\* The nil *docker.Container.
NilContainer == NoContainer

\* A call of GetOrCreateInstance that has not begun.
DockerInit ==
    /\ dockerd \in Containers
    /\ goc \in {[pc |-> "idle",
                 image |-> img,         \* opts.Image
                 within |-> "none",     \* the function that called Start
                 container |-> NilContainer, \* di.container
                 actualImage |-> "",
                 err |-> NoError,       \* the local err
                 n |-> 0,               \* Start's loop counter
                 startErr |-> NoError,  \* what StartContainer returned
                 seen |-> <<>>,         \* what each inspection of this Start showed
                 lookup |-> "none",     \* what line 164's InspectContainer found
                 getErr |-> NoError,    \* the error GetInstance returned
                 creates |-> 0,         \* CreateInstance calls made
                 created |-> 0,         \* containers created
                 ret |-> [di |-> "none", err |-> NoError]] :
                    img \in RequestedImages}

\* One fixed state of the Docker client, for the specifications that do not
\* use it.
DockerParked ==
    /\ dockerd = NoContainer
    /\ goc.image = ""

\* The other packages as they are when the program starts.
ElsewhereInit == RwmInit /\ DockerInit /\ DockerParked

ConstructionInit ==
    /\ diff \in Diffs
    /\ callerMods \in Modifiers
    /\ config \in Configs
    /\ target \in Targets
    /\ db = InitialTable
    /\ pc = "start"
    /\ mods = callerMods
    /\ hasRows = "unset"
    /\ tableSize = 0
    /\ wrapper = NoTemplate
    /\ ddl = ZeroDDL
    /\ ret = [ddl |-> FALSE, err |-> NoError]
    /\ calls = <<>>
    /\ sizeUses = <<>>
    /\ renderedWith = callerMods
    /\ failed = <<>>
    /\ shellVariables = NoVariables
    /\ executes = 0
    /\ lastExec = NoCall
    /\ stmtResult = NoCall
    /\ csResult = NoCall
    /\ history = [passed |-> callerMods, runs |-> <<>>]

\* The state before NewDDLStatement is called.
Init == ConstructionInit /\ ElsewhereInit

\* A plausible slip: the error is dropped on the way out.
ReturnErrorDropped(err) ==
    /\ ret' = [ddl |-> FALSE, err |-> NoError]
    /\ pc' = "done"

\* return nil, err
ReturnError(err) ==
    /\ ret' = [ddl |-> FALSE, err |-> err]
    /\ pc' = "done"

\* ----------------------------------------------------------------- steps

\* A plausible slip: the schema name is kept for a database-level diff.
BeginKeepsSchemaName ==
    /\ pc = "start"
    /\ ddl' = [ZeroDDL EXCEPT
                  !.instance = target.Instance,
                  !.schemaName = target.SchemaName]
    /\ pc' = IF needTableSize(diff, config) THEN "hasrows" ELSE "wrapper"
    /\ UNCHANGED <<inputs, db, mods, hasRows, tableSize, wrapper, ret, calls, sizeUses,
                   renderedWith, failed, shellVariables, use, elsewhere>>

\* Lines 34-48: the struct is allocated, the schema name dropped for a
\* database-level diff, and needTableSize decides whether to look the size up.
Begin ==
    /\ pc = "start"
    /\ ddl' = [ZeroDDL EXCEPT
                  !.instance = target.Instance,
                  !.schemaName = IF diff.shape.type = ObjectTypeDatabase
                                 THEN "" ELSE target.SchemaName]
    /\ pc' = IF needTableSize(diff, config) THEN "hasrows" ELSE "wrapper"
    /\ UNCHANGED <<inputs, db, mods, hasRows, tableSize, wrapper, ret, calls, sizeUses,
                   renderedWith, failed, shellVariables, use, elsewhere>>

\* A plausible slip: the size is queried whatever the row check said.
NeedSizeQueryAlways(rows) == TRUE

\* getTableSize, line 167: TableSize is asked only for a table with rows.
NeedSizeQuery(rows) == rows

\* getTableSize, lines 166-169: Instance.TableHasRows answers.  Without rows
\* the size is 0 and TableSize is not asked.
TableHasRows ==
    /\ pc = "hasrows"
    /\ calls' = Append(calls, "TableHasRows")
    /\ hasRows' = IF db.rows THEN "true" ELSE "false"
    /\ IF NeedSizeQuery(db.rows)
       THEN /\ pc' = "size"
            /\ UNCHANGED <<tableSize, sizeUses>>
       ELSE /\ tableSize' = 0
            /\ sizeUses' = Append(sizeUses, <<"resolved", 0>>)
            /\ pc' = "safebelow"
    /\ UNCHANGED <<inputs, db, mods, wrapper, ddl, ret, renderedWith, failed,
                   shellVariables, use, elsewhere>>

\* getTableSize, lines 166-169: Instance.TableHasRows fails.
TableHasRowsFails ==
    /\ pc = "hasrows"
    /\ calls' = Append(calls, "TableHasRows")
    /\ hasRows' = "error"
    /\ failed' = Append(failed, "TableHasRows")
    /\ ReturnError(Propagated("TableHasRows"))
    /\ UNCHANGED <<inputs, db, mods, tableSize, wrapper, ddl, sizeUses, renderedWith,
                   shellVariables, use, elsewhere>>

\* getTableSize, line 170: Instance.TableSize answers with the catalog's size.
TableSize ==
    /\ pc = "size"
    /\ calls' = Append(calls, "TableSize")
    /\ tableSize' = db.size
    /\ sizeUses' = Append(sizeUses, <<"resolved", db.size>>)
    /\ pc' = "safebelow"
    /\ UNCHANGED <<inputs, db, mods, hasRows, wrapper, ddl, ret, renderedWith, failed,
                   shellVariables, use, elsewhere>>

\* getTableSize, line 170: Instance.TableSize fails.
TableSizeFails ==
    /\ pc = "size"
    /\ calls' = Append(calls, "TableSize")
    /\ failed' = Append(failed, "TableSize")
    /\ ReturnError(Propagated("TableSize"))
    /\ UNCHANGED <<inputs, db, mods, hasRows, tableSize, wrapper, ddl, sizeUses,
                   renderedWith, shellVariables, use, elsewhere>>

\* The table's size as a query would find it now.
LiveSize == IF db.rows THEN db.size ELSE 0

\* A plausible slip: the modifiers are taken by pointer, and the caller sees
\* what the pipeline writes.
CallerModsShared(caller, local) == local

\* Line 33: mods is a parameter passed by value, so lines 58 and 64 write to
\* NewDDLStatement's copy and the caller's value stays what it was.
CallerModsAfter(caller, local) == caller

\* The size the safe-below-size comparison of line 57 reads.
SafeBelowSizeOperand == tableSize

\* Lines 55-60: safe-below-size is read and compared with the size.
SafeBelowSize ==
    /\ pc = "safebelow"
    /\ LET safeBelowSize == GetBytes(config, "safe-below-size") IN
       IF ~safeBelowSize.ok
       THEN /\ failed' = Append(failed, "GetBytes")
            /\ ReturnError(Propagated("GetBytes"))
            /\ UNCHANGED <<mods, sizeUses>>
       ELSE /\ mods' = ApplySafeBelowSize(mods, SafeBelowSizeOperand, safeBelowSize.n)
            /\ sizeUses' = Append(sizeUses, <<"safe-below-size", SafeBelowSizeOperand>>)
            /\ pc' = "wrapper"
            /\ UNCHANGED <<ret, failed>>
    /\ callerMods' = CallerModsAfter(callerMods, mods')
    /\ UNCHANGED <<diff, config, target, db, hasRows, tableSize, wrapper, ddl, calls,
                   renderedWith, shellVariables, use, elsewhere>>

\* A plausible slip: the wrapper decision queries the size again.
WrapperSizeRequeried == LiveSize

\* The size line 64 hands to getWrapper.
WrapperSizeOperand == tableSize

\* Lines 64-67: getWrapper chooses the template and may clear the clauses.
GetWrapper ==
    /\ pc = "wrapper"
    /\ LET w == getWrapper(config, diff, WrapperSizeOperand, mods) IN
       IF w.err # NoError
       THEN /\ failed' = Append(failed, "getWrapper")
            /\ ReturnError(w.err)
            /\ UNCHANGED <<mods, wrapper, sizeUses>>
       ELSE /\ wrapper' = w.wrapper
            /\ mods' = w.mods
            /\ sizeUses' = Append(sizeUses, <<"alter-wrapper-min-size", WrapperSizeOperand>>)
            /\ pc' = "render"
            /\ UNCHANGED <<ret, failed>>
    /\ callerMods' = CallerModsAfter(callerMods, mods')
    /\ UNCHANGED <<diff, config, target, db, hasRows, tableSize, ddl, calls,
                   renderedWith, shellVariables, use, elsewhere>>

\* A plausible slip: a rendering error other than a rejection is not looked at.
AfterStatementIgnoringError(r) ==
    IF IsForbiddenDiff(r.err) THEN "forbidden"
    ELSE IF r.stmt = <<>> THEN "noop"
    ELSE "proceed"

\* A plausible slip: an empty statement is not told apart from a real one.
AfterStatementWithoutNoop(r) ==
    IF IsForbiddenDiff(r.err) THEN "forbidden"
    ELSE IF r.err # NoError THEN "error"
    ELSE "proceed"

\* Lines 70-80: what NewDDLStatement makes of diff.Statement's answer.
AfterStatement(r) ==
    IF IsForbiddenDiff(r.err) THEN "forbidden"
    ELSE IF r.err # NoError THEN "error"
    ELSE IF r.stmt = <<>> THEN "noop"
    ELSE "proceed"

\* Lines 70-73: diff.Statement refuses the statement as forbidden; the error
\* quotes the statement, wrapped to the terminal's width.
StatementForbidden ==
    /\ pc = "render"
    /\ LET r == Statement(diff, mods) IN
       /\ AfterStatement(r) = "forbidden"
       /\ ddl' = [ddl EXCEPT !.stmt = r.stmt]
       /\ \E terminalWidth \in TermWidths :
              ReturnError(ForbiddenError(r.stmt, terminalWidth))
    /\ calls' = Append(calls, "Statement")
    /\ renderedWith' = mods
    /\ failed' = Append(failed, "Statement")
    /\ UNCHANGED <<inputs, db, mods, hasRows, tableSize, wrapper, sizeUses,
                   shellVariables, use, elsewhere>>

\* Lines 70-80: diff.Statement fails otherwise, renders nothing, or renders
\* the statement.
StatementRendered ==
    /\ pc = "render"
    /\ LET r == Statement(diff, mods) IN
       /\ AfterStatement(r) # "forbidden"
       /\ ddl' = [ddl EXCEPT !.stmt = r.stmt]
       /\ IF AfterStatement(r) = "error" THEN ReturnError(r.err)
          ELSE IF AfterStatement(r) = "noop" THEN ReturnError(NoError)
          ELSE pc' = "finish" /\ UNCHANGED ret
       /\ failed' = IF r.err # NoError THEN Append(failed, "Statement") ELSE failed
    /\ calls' = Append(calls, "Statement")
    /\ renderedWith' = mods
    /\ UNCHANGED <<inputs, db, mods, hasRows, tableSize, wrapper, sizeUses,
                   shellVariables, use, elsewhere>>

\* Lines 82-91: the compound flag and, with no wrapper, the connect params;
\* the statement is returned.
FinishDirect ==
    /\ pc = "finish"
    /\ wrapper = NoTemplate
    /\ \E fk \in IF diff.shape.type = ObjectTypeTable /\ diff.shape.diffType = DiffTypeAlter
                 THEN BOOLEAN ELSE {Unread} :
          LET cfg == [config EXCEPT !["foreign-key-checks"] = fk] IN
          /\ config' = cfg
          /\ ddl' = [ddl EXCEPT !.compound = IsCompoundStatement(diff),
                                !.connectParams = getConnectParams(diff, cfg)]
    /\ ret' = [ddl |-> TRUE, err |-> NoError]
    /\ pc' = "done"
    /\ calls' = Append(calls, "getConnectParams")
    /\ UNCHANGED <<diff, callerMods, target, db, mods, hasRows, tableSize, wrapper,
                   sizeUses, renderedWith, failed, shellVariables, use, elsewhere>>

\* The size line 113 formats as the SIZE variable.
SizeVariableOperand == tableSize

\* A plausible slip: the command is built and dropped.
ShellOutDropped(command) == NoShellOut

\* Line 126: the shellOut field once the command is built.
ShellOutField(command) == [present |-> TRUE, command |-> command]

\* Lines 82-131: the compound flag and, with a wrapper, the variable context
\* and the external command; the statement is returned.
FinishShellOut ==
    /\ pc = "finish"
    /\ wrapper # NoTemplate
    /\ \E co \in ConnectOptionValues :
          LET cfg == [config EXCEPT !["connect-options"] = co]
              connOpts == RealConnectOptions(Get(cfg, "connect-options"))
              variables == Variables(diff, mods, target, cfg, ddl.schemaName,
                                     ddl.stmt, SizeVariableOperand, connOpts.value)
              shellOut == NewInterpolatedShellOut(wrapper, variables)
              clausesErr == IF diff.shape.type = ObjectTypeTable
                            THEN Clauses(diff, mods).err ELSE NoError
          IN  /\ config' = cfg
              /\ IF ~connOpts.ok
                 THEN /\ ddl' = [ddl EXCEPT !.compound = IsCompoundStatement(diff)]
                      /\ ReturnError(ConfigError("connect-options"))
                      /\ calls' = Append(calls, "RealConnectOptions")
                      /\ failed' = Append(failed, "RealConnectOptions")
                      /\ UNCHANGED <<sizeUses, shellVariables>>
                 ELSE /\ calls' = calls \o <<"RealConnectOptions">>
                                  \o (IF diff.shape.type = ObjectTypeTable
                                      THEN <<"Clauses">> ELSE <<>>)
                                  \o <<"NewInterpolatedShellOut">>
                      /\ sizeUses' = Append(sizeUses, <<"SIZE", SizeVariableOperand>>)
                      /\ shellVariables' = variables
                      /\ failed' = failed
                                   \o (IF clausesErr # NoError THEN <<"Clauses">> ELSE <<>>)
                                   \o (IF ~shellOut.ok
                                       THEN <<"NewInterpolatedShellOut">> ELSE <<>>)
                      /\ IF ~shellOut.ok
                         THEN /\ ddl' = [ddl EXCEPT !.compound = IsCompoundStatement(diff)]
                              /\ ReturnError(
                                     [kind |-> "error",
                                      text |-> <<"A fatal error occurred with pre-processing a DDL statement: ",
                                                 "NewInterpolatedShellOut", ".">>])
                         ELSE /\ ddl' = [ddl EXCEPT
                                            !.compound = IsCompoundStatement(diff),
                                            !.shellOut = ShellOutField(shellOut.command)]
                              /\ ret' = [ddl |-> TRUE, err |-> NoError]
                              /\ pc' = "done"
    /\ UNCHANGED <<diff, callerMods, target, db, mods, hasRows, tableSize, wrapper,
                   renderedWith, use, elsewhere>>

\* The table changes underneath a construction that looks it up: rows come
\* and go, the catalog's size moves.  A construction that never looks the
\* table up cannot observe it.
EnvChange ==
    /\ pc # "done"
    /\ needTableSize(diff, config)
    /\ db' \in DBStates \ {db}
    /\ UNCHANGED <<inputs, pc, mods, hasRows, tableSize, wrapper, ddl, ret, calls,
                   sizeUses, renderedWith, failed, shellVariables, use, elsewhere>>

Next ==
    \/ Begin
    \/ TableHasRows
    \/ TableHasRowsFails
    \/ TableSize
    \/ TableSizeFails
    \/ SafeBelowSize
    \/ GetWrapper
    \/ StatementForbidden
    \/ StatementRendered
    \/ FinishDirect
    \/ FinishShellOut
    \/ EnvChange

Spec == Init /\ [][Next]_vars

\* ------------------------------------------- using the returned statement

\* The outcomes of the calls Execute makes, by the collaborator that failed.
RunError == [kind |-> "error", text |-> <<"shell-out failed">>]
PoolError == [kind |-> "error", text |-> <<"connection pool failed">>]
ExecError == [kind |-> "error", text |-> <<"query failed">>]

\* A plausible slip: a failed command or query is tried once more.
ExecuteRetrying(d, runOk, poolOk, execOk) ==
    IF d.shellOut.present
    THEN LET run == [op |-> "Run", command |-> d.shellOut.command] IN
         [called |-> TRUE,
          ops |-> IF runOk THEN <<run>> ELSE <<run, run>>,
          err |-> IF runOk THEN NoError ELSE RunError]
    ELSE LET pool == [op |-> "CachedConnectionPool", schema |-> d.schemaName,
                      params |-> d.connectParams]
             exec == [op |-> "Exec", query |-> d.stmt]
         IN  IF ~poolOk
             THEN [called |-> TRUE, ops |-> <<pool>>, err |-> PoolError]
             ELSE [called |-> TRUE,
                   ops |-> IF execOk THEN <<pool, exec>> ELSE <<pool, exec, exec>>,
                   err |-> IF execOk THEN NoError ELSE ExecError]

\* DDLStatement.Execute, lines 229-239: the calls it makes, in order, and
\* the error it returns, given how each collaborator answers.
ExecuteCall(d, runOk, poolOk, execOk) ==
    IF d.shellOut.present
    THEN [called |-> TRUE,
          ops |-> <<[op |-> "Run", command |-> d.shellOut.command]>>,
          err |-> IF runOk THEN NoError ELSE RunError]
    ELSE LET pool == [op |-> "CachedConnectionPool", schema |-> d.schemaName,
                      params |-> d.connectParams]
             exec == [op |-> "Exec", query |-> d.stmt]
         IN  IF ~poolOk
             THEN [called |-> TRUE, ops |-> <<pool>>, err |-> PoolError]
             ELSE [called |-> TRUE, ops |-> <<pool, exec>>,
                   err |-> IF execOk THEN NoError ELSE ExecError]

\* A plausible slip: a statement's command is spent by running it.
ExecuteSpendsShellOut(d) == [d EXCEPT !.shellOut = NoShellOut]

\* Lines 229-239 assign to no field of ddl: the statement after Execute.
ExecuteLeaves(d) == d

\* util.ShellOut.String(): the command's display form.
ShellOutString(shellOut) == shellOut.command

\* The marker Statement() puts before a command: backslash, !, space.
ShellOutMarker == "\\! "

\* A plausible slip: the command is returned without the marker.
StatementStringUnmarked(d) ==
    IF d.shellOut.present THEN ShellOutString(d.shellOut) ELSE d.stmt

\* DDLStatement.Statement(), lines 244-249.
StatementString(d) ==
    IF d.shellOut.present
    THEN <<ShellOutMarker>> \o ShellOutString(d.shellOut)
    ELSE d.stmt

\* tengo.Instance.String(): how the instance names itself.
InstanceString(inst) ==
    IF inst.SocketPath # ""
    THEN <<inst.Host, ":", inst.SocketPath>>
    ELSE <<inst.Host, ":">> \o FormatInt(inst.Port)

\* A plausible slip: the compound flag is looked at first.
ClientStateCompoundFirst(d) ==
    [InstanceName |-> InstanceString(d.instance),
     SchemaName |-> d.schemaName,
     Delimiter |-> IF d.compound THEN "//"
                   ELSE IF d.shellOut.present THEN "" ELSE ";"]

\* DDLStatement.ClientState(), lines 253-265.
ClientState(d) ==
    [InstanceName |-> InstanceString(d.instance),
     SchemaName |-> d.schemaName,
     Delimiter |-> IF d.shellOut.present THEN ""
                   ELSE IF d.compound THEN "//" ELSE ";"]

\* How many Execute calls a caller makes on one statement, at most.
MaxExecutes == 2

\* The caller runs the statement it got: Execute, lines 229-239.
Execute ==
    /\ pc = "done"
    /\ ret.ddl
    /\ executes < MaxExecutes
    /\ \E runOk \in BOOLEAN, poolOk \in BOOLEAN, execOk \in BOOLEAN :
           lastExec' = ExecuteCall(ddl, runOk, poolOk, execOk)
    /\ executes' = executes + 1
    /\ ddl' = ExecuteLeaves(ddl)
    /\ UNCHANGED <<inputs, db, pc, mods, hasRows, tableSize, wrapper, ret, calls,
                   sizeUses, renderedWith, failed, shellVariables, stmtResult, csResult,
                   history, elsewhere>>

\* The caller asks for the statement's text: Statement(), lines 244-249.
CallStatement ==
    /\ pc = "done"
    /\ ret.ddl
    /\ stmtResult' = [called |-> TRUE, value |-> StatementString(ddl)]
    /\ UNCHANGED <<inputs, db, pc, mods, hasRows, tableSize, wrapper, ddl, ret, calls,
                   sizeUses, renderedWith, failed, shellVariables, executes, lastExec,
                   csResult, history, elsewhere>>

\* The caller asks for the client state: ClientState(), lines 253-265.
CallClientState ==
    /\ pc = "done"
    /\ ret.ddl
    /\ csResult' = [called |-> TRUE, value |-> ClientState(ddl)]
    /\ UNCHANGED <<inputs, db, pc, mods, hasRows, tableSize, wrapper, ddl, ret, calls,
                   sizeUses, renderedWith, failed, shellVariables, executes, lastExec,
                   stmtResult, history, elsewhere>>

\* The constructions whose statement is then put to use: well-formed
\* thresholds and a caller that sets no ALGORITHM or LOCK clause.  Execute,
\* Statement() and ClientState() read the statement's fields and nothing
\* else.
UseInit ==
    /\ Init
    /\ config["safe-below-size"].valid
    /\ config["alter-wrapper-min-size"].valid
    /\ callerMods.AlgorithmClause = ""

UseNext ==
    \/ Next
    \/ Execute
    \/ CallStatement
    \/ CallClientState

\* A construction followed by any calls on the statement it returned.
UseSpec == UseInit /\ [][UseNext]_vars

\* ------------------------------------------------------------ properties

HasCall(op) == \E i \in 1..Len(calls) : calls[i] = op
CountCalls(op) == Cardinality({i \in 1..Len(calls) : calls[i] = op})
HasToken(text, tok) == \E i \in 1..Len(text) : text[i] = tok

\* NewDDLStatement has returned a statement and a nil error.
Returned == pc = "done" /\ ret.ddl
\* diff.Statement has been called.
Rendered == HasCall("Statement")
\* getWrapper has returned a template.
WrapperChosen == pc \in {"render", "finish"} \/ (pc = "done" /\ Rendered)
\* The safe-below-size comparison of line 57 has been made.
GateRan == \E i \in 1..Len(sizeUses) : sizeUses[i][1] = "safe-below-size"
\* The error is the rejection of lines 71-73.
IsRejection(err) ==
    /\ err.kind = "error"
    /\ err.text[1] = "Preventing execution of unsafe or potentially destructive statement:"

\* C1 as stated: a returned DDLStatement has exactly one of a non-empty
\* statement text and an external command, and with a wrapper selected its
\* statement text is empty.
C1_ExactlyOne ==
    Returned =>
        /\ (ddl.stmt # <<>>) # ddl.shellOut.present
        /\ (wrapper # NoTemplate => ddl.stmt = <<>>)

\* C1 as amended: a returned DDLStatement always holds a non-empty statement
\* text, and holds an external command exactly when a non-empty wrapper
\* template was selected; the text stays stored beside the command.
C1_StmtKeptShellOutIffWrapper ==
    Returned =>
        /\ ddl.stmt # <<>>
        /\ ddl.stmt = StatementText(diff, renderedWith)
        /\ ddl.shellOut.present <=> wrapper # NoTemplate

\* C1's case: a statement returned with an external command and its text.
C1_Witness == Returned /\ ddl.shellOut.present /\ ddl.stmt # <<>>

\* C2's case: the size was resolved below a well-formed safe-below-size.
C2_BelowThreshold ==
    /\ GateRan
    /\ diff.shape.type = ObjectTypeTable
    /\ diff.shape.diffType # DiffTypeCreate
    /\ tableSize < config["safe-below-size"].bytes

ReportedForbidden == Rendered /\ diff.render = "unsafe" /\ ~renderedWith.AllowUnsafe

\* What a rejection always comes with: no statement, an error naming both
\* remediations, no connect params, no external command.
RejectionShape ==
    /\ pc = "done"
    /\ ~ret.ddl
    /\ ret.err # NoError
    /\ HasToken(ret.err.text, "--allow-unsafe")
    /\ HasToken(ret.err.text, "--safe-below-size")
    /\ ddl.connectParams = ""
    /\ ~ddl.shellOut.present
    /\ ~HasCall("getConnectParams")
    /\ ~HasCall("RealConnectOptions")
    /\ ~HasCall("NewInterpolatedShellOut")

\* C3 as stated: a forbidden statement yields no statement and an error
\* whose text contains the would-be statement text and both remediation
\* names; no connect params, no external command.
C3_ErrorQuotesStatement ==
    ReportedForbidden => (RejectionShape /\ Contains(ret.err.text, ddl.stmt))

\* C3 as amended: the error's text contains the would-be statement word
\* for word and in order, wrapped to the terminal: between two words stands
\* a space or a line break with the comment prefix, so the text is there
\* verbatim only when no line break falls inside it.
C3_ErrorQuotesWrappedStatement ==
    ReportedForbidden =>
        /\ RejectionShape
        /\ ddl.stmt = StatementText(diff, renderedWith)
        /\ Contains(Words(ret.err.text), Words(ddl.stmt))
        /\ \/ Contains(ret.err.text, ddl.stmt)
           \/ HasToken(SubSeq(ret.err.text, 4, Len(ret.err.text)), "\n")

\* C3's case: a rejection whose quoted statement was broken across lines.
C3_Witness ==
    /\ ReportedForbidden
    /\ pc = "done"
    /\ ~Contains(ret.err.text, ddl.stmt)

\* The renderer has returned an empty statement and no error.
RenderedEmpty == Rendered /\ Statement(diff, renderedWith) = [stmt |-> <<>>, err |-> NoError]

\* C4: an empty rendered statement yields (nil, nil), whatever wrapper was
\* selected; connect-options is not read and no external command is built.
C4_NoopYieldsNilNil ==
    RenderedEmpty =>
        /\ pc = "done"
        /\ ret = [ddl |-> FALSE, err |-> NoError]
        /\ ~ddl.shellOut.present
        /\ config["connect-options"] = Unread
        /\ ~HasCall("RealConnectOptions")
        /\ ~HasCall("NewInterpolatedShellOut")
        /\ ~HasCall("getConnectParams")

\* C4's case: a no-op returned although a wrapper template was selected.
C4_Witness == RenderedEmpty /\ pc = "done" /\ wrapper # NoTemplate

\* A table alteration with alter-wrapper configured and a well-formed
\* threshold, once getWrapper has returned.
AlterWrapperCase ==
    /\ WrapperChosen
    /\ diff.shape.type = ObjectTypeTable
    /\ diff.shape.diffType = DiffTypeAlter
    /\ config["alter-wrapper"] # NoTemplate
    /\ config["alter-wrapper-min-size"].valid

MinSize == config["alter-wrapper-min-size"].bytes

ClausesCleared(m) == m.AlgorithmClause = "" /\ m.LockClause = ""
ClausesKept(m) ==
    /\ m.AlgorithmClause = callerMods.AlgorithmClause
    /\ m.LockClause = callerMods.LockClause

\* C5 as stated: at or above the threshold, for every threshold including
\* 0, alter-wrapper is selected and both clauses are cleared for rendering.
C5_ClearedForEveryThreshold ==
    (AlterWrapperCase /\ tableSize >= MinSize) =>
        /\ wrapper = config["alter-wrapper"]
        /\ ClausesCleared(mods)
        /\ Rendered => ClausesCleared(renderedWith)

\* C5 as amended: at or above the threshold alter-wrapper is selected for
\* every threshold; both clauses are cleared for rendering when the
\* threshold is above 0, and are the caller's when it is 0.
C5_ClearedAboveZeroThreshold ==
    (AlterWrapperCase /\ tableSize >= MinSize) =>
        /\ wrapper = config["alter-wrapper"]
        /\ IF MinSize > 0 THEN ClausesCleared(mods) ELSE ClausesKept(mods)
        /\ Rendered => renderedWith = mods

\* C5's case: a table at its positive threshold, rendered with the caller's
\* clauses cleared.
C5_Witness ==
    /\ AlterWrapperCase
    /\ Rendered
    /\ MinSize > 0
    /\ tableSize = MinSize
    /\ callerMods.AlgorithmClause # ""
    /\ callerMods.LockClause # ""
    /\ ClausesCleared(renderedWith)

HasSizePlaceholder(t) ==
    \E i \in 0..(Len(t) - Len(SizePlaceholder)) :
        \A j \in 1..Len(SizePlaceholder) : UpperChar(t[i + j]) = SizePlaceholder[j]

\* The condition under which the size is to be looked up.
SizeLookupRequired ==
    /\ diff.shape.type = ObjectTypeTable
    /\ diff.shape.diffType # DiffTypeCreate
    /\ \/ config["safe-below-size"] # [valid |-> TRUE, bytes |-> 0]
       \/ config["alter-wrapper-min-size"] # [valid |-> TRUE, bytes |-> 0]
       \/ HasSizePlaceholder(config["alter-wrapper"])
       \/ HasSizePlaceholder(config["ddl-wrapper"])

\* C7: a size lookup is issued exactly when the diff is a table diff, not a
\* creation, and a size option is configured or a template holds {SIZE} in
\* any casing; otherwise nothing is looked up and every size used is 0.
C7_LookupIffRequired ==
    /\ pc = "hasrows" => SizeLookupRequired
    /\ pc \notin {"start", "hasrows"} => (HasCall("TableHasRows") <=> SizeLookupRequired)
    /\ HasCall("TableSize") => SizeLookupRequired
    /\ ~SizeLookupRequired =>
           /\ hasRows = "unset"
           /\ tableSize = 0
           /\ \A i \in 1..Len(sizeUses) :
                  sizeUses[i][1] # "resolved" /\ sizeUses[i][2] = 0

\* C7's case: the lookup is made only because a template spells the
\* placeholder in lower case.
C7_Witness ==
    /\ pc = "done"
    /\ HasCall("TableHasRows")
    /\ config["safe-below-size"] = [valid |-> TRUE, bytes |-> 0]
    /\ config["alter-wrapper-min-size"] = [valid |-> TRUE, bytes |-> 0]
    /\ ~Contains(config["ddl-wrapper"], SizePlaceholder)
    /\ ~Contains(config["alter-wrapper"], SizePlaceholder)

\* C8: a table the row check found empty has size 0 and its size is never
\* queried; the size is queried only after a row check that found rows.
C8_EmptyTableIsZero ==
    /\ hasRows = "false" =>
           /\ tableSize = 0
           /\ pc # "size"
           /\ ~HasCall("TableSize")
           /\ sizeUses # <<>>
           /\ \A i \in 1..Len(sizeUses) : sizeUses[i][2] = 0
    /\ (pc = "size" \/ HasCall("TableSize")) =>
           /\ hasRows = "true"
           /\ calls[1] = "TableHasRows"
    /\ hasRows = "error" => (pc = "done" /\ ~ret.ddl /\ ~HasCall("TableSize"))

\* C8's case: a statement built for a table without rows, which the
\* catalog reports at a size above 0.
C8_Witness == Returned /\ hasRows = "false" /\ db.size > 0 /\ Len(sizeUses) > 1

\* The size the lookup resolved, 0 without a lookup.
ResolvedSize ==
    IF sizeUses # <<>> /\ sizeUses[1][1] = "resolved" THEN sizeUses[1][2] ELSE 0

\* C9: the row check and the size query are each made at most once, and
\* the one resolved value is what the safe-below-size comparison, the
\* alter-wrapper-min-size comparison and the SIZE variable use, however the
\* table changes meanwhile.
C9_OneSizeForAllUses ==
    /\ CountCalls("TableHasRows") <= 1
    /\ CountCalls("TableSize") <= 1
    /\ Cardinality({i \in 1..Len(sizeUses) : sizeUses[i][1] = "resolved"}) <= 1
    /\ tableSize = ResolvedSize
    /\ \A i \in 1..Len(sizeUses) : sizeUses[i][2] = ResolvedSize
    /\ (Returned /\ ddl.shellOut.present) =>
           /\ \E i \in 1..Len(sizeUses) : sizeUses[i] = <<"SIZE", ResolvedSize>>
           /\ HasSizePlaceholder(wrapper) =>
                  Contains(ddl.shellOut.command, FormatInt(ResolvedSize))

\* C9's case: all three uses made of a size the table no longer has.
C9_Witness ==
    /\ Returned
    /\ ddl.shellOut.present
    /\ \E i \in 1..Len(sizeUses) : sizeUses[i][1] = "safe-below-size"
    /\ \E i \in 1..Len(sizeUses) : sizeUses[i][1] = "alter-wrapper-min-size"
    /\ \E i \in 1..Len(sizeUses) : sizeUses[i][1] = "SIZE"
    /\ config["alter-wrapper"] # NoTemplate
    /\ diff.shape.diffType = DiffTypeAlter
    /\ LiveSize # ResolvedSize

\* C10 as stated: a returned statement that is compound has no external
\* command.
C10_CompoundOnlyDirect == (Returned /\ ddl.compound) => ~ddl.shellOut.present

\* C10 as amended: a returned statement is compound exactly when its diff
\* is a Compounder reporting a compound statement, with or without an
\* external command.
C10_CompoundFollowsDiff ==
    Returned => (ddl.compound <=> (diff.shape.compounder /\ diff.shape.isCompound))

\* C10's case: a compound statement returned with an external command.
C10_Witness == Returned /\ ddl.compound /\ ddl.shellOut.present

\* The schema name a statement for the diff is to carry.
ExpectedSchemaName ==
    IF diff.shape.type = ObjectTypeDatabase THEN "" ELSE target.SchemaName

\* C11: a database-level diff gives a statement with an empty schema name,
\* every other diff one with the target's; ClientState reports it, the
\* connection pool is asked for it and the SCHEMA variable holds it.
C11_SchemaNameByObjectType ==
    /\ pc # "start" => ddl.schemaName = ExpectedSchemaName
    /\ csResult.called => csResult.value.SchemaName = ExpectedSchemaName
    /\ (lastExec.called /\ ~ddl.shellOut.present) =>
           lastExec.ops[1].schema = ExpectedSchemaName
    /\ (Returned /\ ddl.shellOut.present) =>
           shellVariables["SCHEMA"] = Text(ExpectedSchemaName)

\* C11's case: a database-level statement of a target with a schema name,
\* asked for its client state and executed through the pool.
C11_Witness ==
    /\ Returned
    /\ diff.shape.type = ObjectTypeDatabase
    /\ target.SchemaName # ""
    /\ csResult.called
    /\ lastExec.called
    /\ lastExec.ops[1].op = "CachedConnectionPool"

\* A statement returned for direct execution.
ReturnedDirect == Returned /\ ~ddl.shellOut.present

\* C12: without an external command a table alteration connects with
\* "readTimeout=0&foreign_key_checks=1" exactly when foreign-key-checks is
\* enabled and the alteration adds a foreign key, and with "readTimeout=0"
\* otherwise; a creation connects with no params.  With an external command
\* the connect params are empty.
C12_ConnectParams ==
    /\ (ReturnedDirect /\ diff.shape.type = ObjectTypeTable
            /\ diff.shape.diffType = DiffTypeAlter) =>
           /\ config["foreign-key-checks"] \in BOOLEAN
           /\ ddl.connectParams \in {"readTimeout=0&foreign_key_checks=1", "readTimeout=0"}
           /\ ddl.connectParams = "readTimeout=0&foreign_key_checks=1"
                  <=> (config["foreign-key-checks"] /\ diff.shape.addFKs)
    /\ (ReturnedDirect /\ diff.shape.diffType = DiffTypeCreate) => ddl.connectParams = ""
    /\ (Returned /\ ddl.shellOut.present) => ddl.connectParams = ""

\* C12's case: an alteration adding a foreign key with the checks enabled.
C12_Witness ==
    /\ ReturnedDirect
    /\ diff.shape.diffType = DiffTypeAlter
    /\ diff.shape.addFKs
    /\ ddl.connectParams = "readTimeout=0&foreign_key_checks=1"

\* C13 as stated: without an external command every drop, of a table or of
\* any other object, connects with "readTimeout=0".
C13_EveryDropUnlimited ==
    (ReturnedDirect /\ diff.shape.diffType = DiffTypeDrop) =>
        ddl.connectParams = "readTimeout=0"

\* C13 as amended: without an external command a table drop connects with
\* "readTimeout=0" and a drop of any other object with no params.
C13_TableDropUnlimited ==
    (ReturnedDirect /\ diff.shape.diffType = DiffTypeDrop) =>
        ddl.connectParams =
            IF diff.shape.type = ObjectTypeTable THEN "readTimeout=0" ELSE ""

\* C13's case: a routine or database dropped by direct execution.
C13_Witness ==
    /\ ReturnedDirect
    /\ diff.shape.diffType = DiffTypeDrop
    /\ diff.shape.type # ObjectTypeTable
    /\ ddl.connectParams = ""

\* The delimiter ClientState is to report for the statement.
ExpectedDelimiter ==
    IF ddl.shellOut.present THEN ""
    ELSE IF ddl.compound THEN "//"
    ELSE ";"

\* C14: ClientState reports the delimiter "" with an external command, even
\* for a compound statement, "//" for a compound statement without one and
\* ";" otherwise, and the statement's schema name.
C14_ClientStateDelimiter ==
    csResult.called =>
        /\ csResult.value.Delimiter = ExpectedDelimiter
        /\ csResult.value.SchemaName = ddl.schemaName

\* C14's case: the client state of a compound statement that has an
\* external command.
C14_Witness ==
    /\ csResult.called
    /\ ddl.compound
    /\ ddl.shellOut.present
    /\ csResult.value.Delimiter = ""

\* C15: Statement() returns the marker of backslash, exclamation mark and
\* space followed by the command's display form when there is an external
\* command, and exactly the rendered statement text, without the marker,
\* when there is none.
C15_StatementMarker ==
    stmtResult.called =>
        IF ddl.shellOut.present
        THEN /\ stmtResult.value[1] = "\\! "
             /\ Len(stmtResult.value[1]) = 3
             /\ SubSeq(stmtResult.value, 2, Len(stmtResult.value))
                    = ShellOutString(ddl.shellOut)
        ELSE /\ stmtResult.value = StatementText(diff, renderedWith)
             /\ stmtResult.value[1] # "\\! "

\* C15's case: the text of a statement that has an external command.
C15_Witness ==
    /\ stmtResult.called
    /\ ddl.shellOut.present
    /\ Len(stmtResult.value) > 1

\* A configuration value read during the construction was malformed.
MalformedConfigRead ==
    \E i \in 1..Len(failed) : failed[i] \in {"GetBytes", "getWrapper", "RealConnectOptions"}

\* C16: a malformed safe-below-size, alter-wrapper-min-size or
\* connect-options read during construction makes NewDDLStatement return no
\* statement and a ConfigError.
C16_MalformedIsConfigError ==
    MalformedConfigRead =>
        /\ pc = "done"
        /\ ~ret.ddl
        /\ ret.err.kind = "ConfigError"

\* The variables map has been built.
VariablesBuilt == DOMAIN shellVariables # {}

\* C17 as stated: with a socket path HOST and PORT are empty and SOCKET is
\* the path; without one SOCKET is empty and PORT is the port in decimal.
C17_HostEmptyWithSocket ==
    VariablesBuilt =>
        IF target.Instance.SocketPath # ""
        THEN /\ shellVariables["HOST"] = <<>>
             /\ shellVariables["PORT"] = <<>>
             /\ shellVariables["SOCKET"] = <<target.Instance.SocketPath>>
        ELSE /\ shellVariables["SOCKET"] = <<>>
             /\ shellVariables["PORT"] = FormatInt(target.Instance.Port)

\* C17 as amended: with a socket path PORT is empty and SOCKET is the path;
\* without one SOCKET is empty and PORT is the port in decimal; HOST is the
\* instance's host either way.
C17_PortEmptyWithSocket ==
    VariablesBuilt =>
        /\ shellVariables["HOST"] = <<target.Instance.Host>>
        /\ IF target.Instance.SocketPath # ""
           THEN /\ shellVariables["PORT"] = <<>>
                /\ shellVariables["SOCKET"] = <<target.Instance.SocketPath>>
           ELSE /\ shellVariables["SOCKET"] = <<>>
                /\ target.Instance.Port = 3306
                /\ shellVariables["PORT"] = <<"3", "3", "0", "6">>

\* C17's case: the variables of a statement for an instance on a socket.
C17_Witness ==
    /\ Returned
    /\ VariablesBuilt
    /\ target.Instance.SocketPath # ""
    /\ shellVariables["HOST"] # <<>>
    /\ shellVariables["PORT"] = <<>>

\* C18: once NewDDLStatement has returned a statement, no Execute,
\* Statement or ClientState call, in any order and whatever Execute's
\* outcome, changes a field of it, and Statement and ClientState return
\* what they returned before.
C18_ImmutableAfterReturn ==
    [][Returned =>
          /\ ddl' = ddl
          /\ stmtResult.called => stmtResult' = stmtResult
          /\ csResult.called => csResult' = csResult]_vars

\* C18's case: a statement read, executed twice with a failure, and read.
C18_Witness ==
    /\ Returned
    /\ executes = 2
    /\ lastExec.err # NoError
    /\ stmtResult.called
    /\ csResult.called

\* C19: an Execute call makes one attempt.  With an external command it
\* runs the command once, asks for no pool, sends no SQL and returns the
\* command's outcome; otherwise it asks for the pool of (schema name,
\* connect params), returns the pool's error without sending anything, or
\* sends the statement once and returns the query's error as it is.
C19_OneAttempt ==
    lastExec.called =>
        IF ddl.shellOut.present
        THEN /\ lastExec.ops = <<[op |-> "Run", command |-> ddl.shellOut.command]>>
             /\ lastExec.err \in {NoError, RunError}
        ELSE LET pool == [op |-> "CachedConnectionPool", schema |-> ddl.schemaName,
                          params |-> ddl.connectParams]
                 exec == [op |-> "Exec", query |-> ddl.stmt]
             IN  \/ lastExec.ops = <<pool>> /\ lastExec.err = PoolError
                 \/ lastExec.ops = <<pool, exec>> /\ lastExec.err \in {NoError, ExecError}

\* C19's case: a second Execute whose query failed.
C19_Witness ==
    /\ lastExec.called
    /\ executes = 2
    /\ Len(lastExec.ops) = 2
    /\ lastExec.err = ExecError

RwmCall(t, f) ==
    /\ ~rwm.crashed
    /\ rwm.pc[t] = "idle"
    /\ rwm.calls < MaxCalls
    /\ rwm' = [rwm EXCEPT !.pc[t] = "check", !.flavor[t] = f, !.local[t] = NilMap,
                          !.calls = @ + 1]
    /\ UNCHANGED <<construction, tengoDocker, reservedWordsByFlavor, keywordMutex>>

\* What the read of lines 34-35, made without the mutex, may find under a
\* flavor: the entry as the thread last saw it under the mutex or stored it
\* itself, or any map stored since.
RwmObservable(t, f) ==
    {IF i = 0 THEN NilMap ELSE reservedWordsByFlavor.writes[f][i] :
        i \in rwm.visible[t][f]..Len(reservedWordsByFlavor.writes[f])}

\* Lines 34-38: the unlocked look.  A map found is returned at once;
\* otherwise the thread goes on to take the mutex.
RwmCheck(t) ==
    /\ ~rwm.crashed
    /\ rwm.pc[t] = "check"
    /\ \E found \in RwmObservable(t, rwm.flavor[t]) :
          IF found # NilMap
          THEN rwm' = [rwm EXCEPT !.pc[t] = "idle",
                                  !.returned = @ \cup {<<rwm.flavor[t], found>>}]
          ELSE rwm' = [rwm EXCEPT !.pc[t] = "lock"]
    /\ UNCHANGED <<construction, tengoDocker, reservedWordsByFlavor, keywordMutex>>

\* Lines 34-35 read the outer map while another thread writes to it at line
\* 63: the runtime may stop the program ("concurrent map read and map
\* write").
RwmCheckCrash(t) ==
    /\ ~rwm.crashed
    /\ rwm.pc[t] = "check"
    /\ \E u \in Threads \ {t} : rwm.pc[u] = "store"
    /\ rwm' = [rwm EXCEPT !.crashed = TRUE]
    /\ UNCHANGED <<construction, tengoDocker, reservedWordsByFlavor, keywordMutex>>

\* Lines 40-41: keywordMutex.Lock().  From here the thread sees every map
\* stored before.
RwmLock(t) ==
    /\ ~rwm.crashed
    /\ rwm.pc[t] = "lock"
    /\ keywordMutex = 0
    /\ keywordMutex' = t
    /\ rwm' = [rwm EXCEPT !.pc[t] = "build",
                          !.visible[t] = [f \in Flavors |->
                                             Len(reservedWordsByFlavor.writes[f])]]
    /\ UNCHANGED <<construction, tengoDocker, reservedWordsByFlavor>>

\* Lines 43-61: the outer map is made if it is nil, and a new map is made
\* and filled with the flavor's words.  The flavor's entry is not looked at.
RwmBuild(t) ==
    /\ ~rwm.crashed
    /\ rwm.pc[t] = "build"
    /\ reservedWordsByFlavor' = [reservedWordsByFlavor EXCEPT !.made = TRUE]
    /\ rwm' = [rwm EXCEPT !.pc[t] = "store", !.local[t] = rwm.built + 1,
                          !.built = @ + 1]
    /\ UNCHANGED <<construction, tengoDocker, keywordMutex>>

\* Line 63: reservedWordsByFlavor[flavor] = rwm.
RwmStore(t) ==
    /\ ~rwm.crashed
    /\ rwm.pc[t] = "store"
    /\ LET f == rwm.flavor[t] IN
       /\ reservedWordsByFlavor' =
              [reservedWordsByFlavor EXCEPT !.byFlavor[f] = rwm.local[t],
                                            !.writes[f] = Append(@, rwm.local[t])]
       /\ rwm' = [rwm EXCEPT !.pc[t] = "return",
                             !.visible[t][f] = Len(reservedWordsByFlavor.writes[f]) + 1]
    /\ UNCHANGED <<construction, tengoDocker, keywordMutex>>

\* Lines 64 and 41: return rwm, and the deferred keywordMutex.Unlock().
RwmReturn(t) ==
    /\ ~rwm.crashed
    /\ rwm.pc[t] = "return"
    /\ keywordMutex' = 0
    /\ rwm' = [rwm EXCEPT !.pc[t] = "idle",
                          !.returned = @ \cup {<<rwm.flavor[t], rwm.local[t]>>}]
    /\ UNCHANGED <<construction, tengoDocker, reservedWordsByFlavor>>

\* No construction is under way: its inputs are fixed.
NoConstruction ==
    /\ diff = CHOOSE d \in Diffs : TRUE
    /\ callerMods = CHOOSE m \in Modifiers : TRUE
    /\ config = CHOOSE c \in Configs : TRUE
    /\ target = CHOOSE tgt \in Targets : TRUE

RwmSpecInit == ConstructionInit /\ NoConstruction /\ ElsewhereInit

RwmNext ==
    \E t \in Threads :
        \/ \E f \in Flavors : RwmCall(t, f)
        \/ RwmCheck(t)
        \/ RwmCheckCrash(t)
        \/ RwmLock(t)
        \/ RwmBuild(t)
        \/ RwmStore(t)
        \/ RwmReturn(t)

\* Threads calling ReservedWordMap, in any interleaving.
RwmSpec == RwmSpecInit /\ [][RwmNext]_vars

\* C21: the calls of ReservedWordMap with one flavor all return the same
\* map, also when the first ones run concurrently: a flavor's map is built
\* and stored at most once and never replaced.
C21_OneMapPerFlavor ==
    /\ \A r1 \in rwm.returned, r2 \in rwm.returned : r1[1] = r2[1] => r1[2] = r2[2]
    /\ \A f \in Flavors : Len(reservedWordsByFlavor.writes[f]) <= 1

\* ------------------------------------- tengo.DockerClient: the operations

\* What InspectContainer returns: the container as the daemon has it, a
\* no-such-container error when it does not exist, or the daemon's failure.
InspectOutcomes ==
    (IF dockerd.exists
     THEN {[container |-> dockerd, err |-> NoError]}
     ELSE {[container |-> NilContainer, err |-> NoSuchContainer]})
    \cup {[container |-> NilContainer, err |-> DaemonError]}

\* What an inspection showed, for the record of a Start.
Shown(o) ==
    IF o.err # NoError THEN "error"
    ELSE IF o.container.port = 0 THEN "no mapping" ELSE "mapping"

\* The image GetInstance compares: the container's, or for a digest the tag
\* of the image that matches the request, when the image can be inspected.
ActualImage(container, image, inspected) ==
    IF /\ container.made.digest
       /\ inspected
       /\ (container.made.repoTag = image \/ image = "")
    THEN container.made.repoTag
    ELSE container.made.image

\* GetInstance's last check: the requested image is none of the actual image,
\* the flavor and the flavor's family.
UnexpectedImage(image, actualImage, made) ==
    /\ image # ""
    /\ image # actualImage
    /\ image # made.flavor
    /\ image # made.family

\* Start's loop gives up when its counter has reached six.
StartGivesUpLate(n) == n >= 7
StartGivesUp(n) == n >= 6

\* Start inspects after StartContainer succeeded or found the container
\* already running, and returns any other error.
StartInspectsAfter(err) == err = NoError \/ err.kind = "ContainerAlreadyRunning"

\* GetOrCreateInstance's choice on GetInstance's error.
GocChoiceAnyError(err) ==
    IF err = NoError THEN "return" ELSE "create"
GocChoice(err) ==
    IF err = NoError THEN "return"
    ELSE IF err.kind = "NoSuchContainer" THEN "create"
    ELSE "fail"

\* The first state of a Start called from `from`.
EnterStart(g, from) ==
    [g EXCEPT !.pc = "StartContainer", !.within = from, !.n = 0,
              !.startErr = NoError, !.seen = <<>>, !.err = NoError]

\* GetOrCreateInstance is called.
GocCall ==
    /\ goc.pc = "idle"
    /\ goc' = [goc EXCEPT !.pc = "GetInstance"]
    /\ UNCHANGED <<construction, tengoKeywords, dockerd>>

\* GetInstance looks the container up by name.
GetInspect ==
    /\ goc.pc = "GetInstance"
    /\ \E o \in InspectOutcomes :
          goc' = IF o.err # NoError
                 THEN [goc EXCEPT !.pc = "dispatch", !.getErr = o.err, !.err = o.err,
                                  !.lookup = IF o.err = NoSuchContainer
                                             THEN "missing" ELSE "error"]
                 ELSE [goc EXCEPT !.pc = "actualImage", !.container = o.container,
                                  !.lookup = "found"]
    /\ UNCHANGED <<construction, tengoKeywords, dockerd>>

\* GetInstance resolves the image and calls Start.
GetActualImage ==
    /\ goc.pc = "actualImage"
    /\ \E inspected \in BOOLEAN :
          goc' = [EnterStart(goc, "GetInstance") EXCEPT
                     !.actualImage = ActualImage(goc.container, goc.image, inspected)]
    /\ UNCHANGED <<construction, tengoKeywords, dockerd>>

\* What StartContainer returns, and the container it leaves: started (its
\* port mapping in place or not yet), already running, gone, or a failure of
\* the daemon.
StartContainerOutcomes ==
    (IF ~dockerd.exists
     THEN {[err |-> NoSuchContainer, after |-> dockerd]}
     ELSE IF dockerd.running
     THEN {[err |-> ContainerAlreadyRunning, after |-> dockerd]}
     ELSE {[err |-> NoError,
            after |-> [dockerd EXCEPT !.running = TRUE, !.port = p]] :
               p \in {0, MappedPort}})
    \cup {[err |-> DaemonError, after |-> dockerd]}

\* Start asks the daemon to start the container.
StartContainer ==
    /\ goc.pc = "StartContainer"
    /\ \E o \in StartContainerOutcomes :
          /\ dockerd' = o.after
          /\ goc' = [goc EXCEPT !.startErr = o.err, !.err = o.err,
                                !.pc = IF StartInspectsAfter(o.err)
                                       THEN "InspectContainer" ELSE "StartReturns"]
    /\ UNCHANGED <<construction, tengoKeywords>>

\* Start inspects the container: the first time, and after each sleep.
StartInspect ==
    /\ goc.pc = "InspectContainer"
    /\ \E o \in InspectOutcomes :
          goc' = [goc EXCEPT !.container = o.container, !.err = o.err,
                             !.n = @ + 1, !.seen = Append(@, Shown(o)),
                             !.pc = "loop"]
    /\ UNCHANGED <<construction, tengoKeywords, dockerd>>

\* Start's loop test: with no error and no port mapping it gives up or
\* sleeps and inspects again, and otherwise Start returns the error it has.
StartLoop ==
    /\ goc.pc = "loop"
    /\ goc' = IF goc.err = NoError /\ goc.container.port = 0
              THEN IF StartGivesUp(goc.n)
                   THEN [goc EXCEPT !.err = PortMappingError, !.pc = "StartReturns"]
                   ELSE [goc EXCEPT !.pc = "InspectContainer"]
              ELSE [goc EXCEPT !.pc = "StartReturns"]
    /\ UNCHANGED <<construction, tengoKeywords, dockerd>>

\* GetInstance after Start: an error is returned with no instance.
GetStarted ==
    /\ goc.pc = "StartReturns"
    /\ goc.within = "GetInstance"
    /\ goc' = IF goc.err # NoError
              THEN [goc EXCEPT !.pc = "dispatch", !.getErr = goc.err]
              ELSE [goc EXCEPT !.pc = "TryConnect"]
    /\ UNCHANGED <<construction, tengoKeywords, dockerd>>

\* CreateInstance after Start: an error is returned with the instance.
CreateStarted ==
    /\ goc.pc = "StartReturns"
    /\ goc.within = "CreateInstance"
    /\ goc' = IF goc.err # NoError
              THEN [goc EXCEPT !.pc = "done", !.ret = [di |-> "new", err |-> goc.err]]
              ELSE [goc EXCEPT !.pc = "TryConnect"]
    /\ UNCHANGED <<construction, tengoKeywords, dockerd>>

\* Whether the database in the container can be reached now.
Reachable == dockerd.exists /\ dockerd.running /\ dockerd.port # 0

\* TryConnect: connected, or its error when the attempts ran out.
TryConnectOutcomes ==
    {ConnectError} \cup (IF Reachable THEN {NoError} ELSE {})

\* GetInstance connects, and gives no instance when it cannot.
GetTryConnect ==
    /\ goc.pc = "TryConnect"
    /\ goc.within = "GetInstance"
    /\ \E e \in TryConnectOutcomes :
          goc' = IF e # NoError
                 THEN [goc EXCEPT !.pc = "dispatch", !.err = e, !.getErr = e]
                 ELSE [goc EXCEPT !.pc = "image", !.err = e]
    /\ UNCHANGED <<construction, tengoKeywords, dockerd>>

\* GetInstance compares the image with the one asked for.
GetCheckImage ==
    /\ goc.pc = "image"
    /\ goc' = [goc EXCEPT
                  !.pc = "dispatch",
                  !.getErr = IF UnexpectedImage(goc.image, goc.actualImage,
                                                goc.container.made)
                             THEN UnexpectedImageError ELSE NoError]
    /\ UNCHANGED <<construction, tengoKeywords, dockerd>>

\* GetOrCreateInstance acts on what GetInstance returned: the instance, a
\* call of CreateInstance, or the error.
GocDispatch ==
    /\ goc.pc = "dispatch"
    /\ LET choice == GocChoice(goc.getErr) IN
       goc' = IF choice = "return"
              THEN [goc EXCEPT !.pc = "done",
                               !.ret = [di |-> "existing", err |-> NoError]]
              ELSE IF choice = "create"
              THEN [goc EXCEPT !.pc = "CreateInstance", !.creates = @ + 1]
              ELSE [goc EXCEPT !.pc = "done",
                               !.ret = [di |-> "nil", err |-> goc.getErr]]
    /\ UNCHANGED <<construction, tengoKeywords, dockerd>>

\* CreateInstance refuses a blank image, and pulls the image when it is not
\* there; a failed pull is returned.
CreateBegin ==
    /\ goc.pc = "CreateInstance"
    /\ \E present \in BOOLEAN, pulled \in BOOLEAN :
          goc' = IF goc.image = ""
                 THEN [goc EXCEPT !.pc = "done",
                                  !.ret = [di |-> "nil", err |-> EmptyImageError]]
                 ELSE IF ~present /\ ~pulled
                 THEN [goc EXCEPT !.pc = "done",
                                  !.ret = [di |-> "nil", err |-> DaemonError]]
                 ELSE [goc EXCEPT !.pc = "CreateContainer"]
    /\ UNCHANGED <<construction, tengoKeywords, dockerd>>

\* The container CreateContainer makes from the image asked for.
NewContainer(image) ==
    [exists |-> TRUE, running |-> FALSE, port |-> 0,
     made |-> [image |-> image, digest |-> FALSE, repoTag |-> image,
               flavor |-> "mysql:8.0", family |-> "mysql"]]

\* CreateInstance creates the container and calls Start, or returns the
\* daemon's error with no instance.
CreateContainer ==
    /\ goc.pc = "CreateContainer"
    /\ \/ /\ ~dockerd.exists
          /\ dockerd' = NewContainer(goc.image)
          /\ goc' = [EnterStart(goc, "CreateInstance") EXCEPT
                        !.container = NewContainer(goc.image), !.created = @ + 1]
       \/ /\ dockerd' = dockerd
          /\ goc' = [goc EXCEPT !.pc = "done", !.err = DaemonError,
                                !.ret = [di |-> "nil", err |-> DaemonError]]
    /\ UNCHANGED <<construction, tengoKeywords>>

\* CreateInstance connects, and returns the instance with or without an error.
CreateTryConnect ==
    /\ goc.pc = "TryConnect"
    /\ goc.within = "CreateInstance"
    /\ \E e \in TryConnectOutcomes :
          goc' = [goc EXCEPT !.pc = "done", !.err = e,
                             !.ret = [di |-> "new", err |-> e]]
    /\ UNCHANGED <<construction, tengoKeywords, dockerd>>

\* While the call runs, the port mapping of the started container comes up.
DockerdPortMapped ==
    /\ goc.pc \notin {"idle", "done"}
    /\ dockerd.exists /\ dockerd.running /\ dockerd.port = 0
    /\ dockerd' = [dockerd EXCEPT !.port = MappedPort]
    /\ UNCHANGED <<construction, tengoKeywords, goc>>

\* While the call runs, someone else removes the container.
DockerdRemoved ==
    /\ goc.pc \notin {"idle", "done"}
    /\ dockerd.exists
    /\ dockerd' = NoContainer
    /\ UNCHANGED <<construction, tengoKeywords, goc>>

\* The steps of the call itself.
GocStep ==
    \/ GocCall
    \/ GetInspect
    \/ GetActualImage
    \/ StartContainer
    \/ StartInspect
    \/ StartLoop
    \/ GetStarted
    \/ CreateStarted
    \/ GetTryConnect
    \/ GetCheckImage
    \/ GocDispatch
    \/ CreateBegin
    \/ CreateContainer
    \/ CreateTryConnect

DockerSpecInit == ConstructionInit /\ NoConstruction /\ RwmInit /\ DockerInit

DockerNext == GocStep \/ DockerdPortMapped \/ DockerdRemoved

\* One call of GetOrCreateInstance against a daemon others use too.
DockerSpec == DockerSpecInit /\ [][DockerNext]_vars

\* The same, with a call that keeps running: every call made to the daemon and
\* to the database returns.
DockerFairSpec == DockerSpec /\ WF_vars(GocStep)

\* GetOrCreateInstance has returned.
GocReturned == goc.pc = "done"

\* GetInstance has returned and GetOrCreateInstance has acted on it.
GocDispatched == goc.pc \in {"CreateInstance", "CreateContainer", "done"} \/
                 goc.within = "CreateInstance"

StartReturned == goc.pc = "StartReturns"

\* What a Start that has returned did, by what StartContainer gave.
C23_StartOutcome ==
    /\ Len(goc.seen) <= 6
    /\ StartReturned =>
          IF goc.startErr \notin {NoError, ContainerAlreadyRunning}
          THEN goc.seen = <<>> /\ goc.err = goc.startErr
          ELSE /\ Len(goc.seen) >= 1
               /\ \A i \in 1..(Len(goc.seen) - 1) : goc.seen[i] = "no mapping"
               /\ LET last == goc.seen[Len(goc.seen)] IN
                     /\ last = "mapping" => goc.err = NoError
                     /\ last = "error" => goc.err \in {NoSuchContainer, DaemonError}
                     /\ last = "no mapping" =>
                           Len(goc.seen) = 6 /\ goc.err = PortMappingError

FailedChecks == SelectSeq(failed, LAMBDA f : f # "Clauses")

\* The place of a check in the order the claim gives.
CheckRank(f) ==
    CASE f \in {"TableHasRows", "TableSize"} -> 1
      [] f = "GetBytes" -> 2
      [] f = "getWrapper" -> 3
      [] f = "Statement" -> 4
      [] f = "RealConnectOptions" -> 5
      [] f = "NewInterpolatedShellOut" -> 6

\* The check of that place has been made, passing or failing.
CheckMade(k) ==
    CASE k = 1 -> HasCall("TableHasRows")
      [] k = 2 -> GateRan \/ HasToken(failed, "GetBytes")
      [] k = 3 -> \/ \E i \in 1..Len(sizeUses) : sizeUses[i][1] = "alter-wrapper-min-size"
                  \/ HasToken(failed, "getWrapper")
      [] k = 4 -> Rendered
      [] k = 5 -> HasCall("RealConnectOptions")
      [] k = 6 -> HasCall("NewInterpolatedShellOut")

\* The check of that place applies to this construction.
CheckApplies(k) ==
    CASE k \in {1, 2} -> needTableSize(diff, config)
      [] k \in {3, 4} -> TRUE
      [] k \in {5, 6} -> wrapper # NoTemplate

\* NewDDLStatement returned (nil, nil).
ReturnedNoop == pc = "done" /\ ~ret.ddl /\ ret.err = NoError

\* C24: at most one check fails, and with it NewDDLStatement returns an error:
\* every check that applies and comes earlier in the order size lookup,
\* safe-below-size, alter-wrapper-min-size, rendering, connect-options,
\* command construction has been made and passed, and no later one is made.
\* So the renderer is not called after a failed size lookup or threshold, a
\* no-op ends construction before connect-options is read, and
\* connect-options fails only with a wrapper chosen and a statement rendered.
C24_ChecksFailInOrder ==
    /\ Len(FailedChecks) <= 1
    /\ FailedChecks # <<>> =>
          /\ pc = "done" /\ ~ret.ddl /\ ret.err # NoError
          /\ \A k \in 1..6 :
                /\ k > CheckRank(FailedChecks[1]) => ~CheckMade(k)
                /\ k < CheckRank(FailedChecks[1]) /\ CheckApplies(k) => CheckMade(k)
    /\ FailedChecks # <<>> /\ CheckRank(FailedChecks[1]) <= 3 => ~Rendered
    /\ ReturnedNoop =>
          ~CheckMade(5) /\ ~CheckMade(6) /\ ~HasCall("getConnectParams")
    /\ HasToken(failed, "RealConnectOptions") =>
          /\ wrapper # NoTemplate
          /\ Rendered
          /\ Statement(diff, renderedWith).stmt # <<>>
          /\ Statement(diff, renderedWith).err = NoError

\* Both thresholds are malformed, and safe-below-size is the one reported.
C24_Witness ==
    /\ FailedChecks = <<"GetBytes">>
    /\ getWrapper(config, diff, tableSize, mods).err # NoError

\* ------------------------------------- NewDDLStatement: the safety override

\* The size was looked up and is strictly below safe-below-size.
SizeBelowSafe ==
    /\ needTableSize(diff, config)
    /\ config["safe-below-size"].valid
    /\ ResolvedSize < config["safe-below-size"].bytes

MaxRepeats == 1

\* The caller keeps the outcome and calls NewDDLStatement again with the
\* modifiers value it holds; the construction starts over from line 33 and
\* reads the configuration as it is then.
Again ==
    /\ pc = "done"
    /\ Len(history.runs) < MaxRepeats
    /\ history' = [history EXCEPT
                      !.runs = Append(@, [ret |-> ret, stmt |-> ddl.stmt,
                                          rendered |-> Rendered,
                                          renderedWith |-> renderedWith])]
    /\ config' = [config EXCEPT !["foreign-key-checks"] = Unread,
                                !["connect-options"] = Unread]
    /\ pc' = "start"
    /\ mods' = callerMods
    /\ hasRows' = "unset"
    /\ tableSize' = 0
    /\ wrapper' = NoTemplate
    /\ ddl' = ZeroDDL
    /\ ret' = [ddl |-> FALSE, err |-> NoError]
    /\ calls' = <<>>
    /\ sizeUses' = <<>>
    /\ renderedWith' = callerMods
    /\ failed' = <<>>
    /\ shellVariables' = NoVariables
    /\ UNCHANGED <<diff, callerMods, target, db, executes, lastExec, stmtResult,
                   csResult, elsewhere>>

\* Constructions for table diffs on one target, with no ddl-wrapper, from
\* modifiers that carry algorithm and lock clauses.
TwiceInit ==
    /\ Init
    /\ callerMods.AlgorithmClause # ""
    /\ diff.shape.type = ObjectTypeTable
    /\ ~diff.shape.addFKs
    /\ target = CHOOSE tgt \in Targets : tgt.Instance.SocketPath = ""
    /\ config["ddl-wrapper"] = NoTemplate

TwiceNext == Next \/ Again

\* Constructions one after another from the modifiers value the caller holds.
TwiceSpec == TwiceInit /\ [][TwiceNext]_vars

\* The clauses the pipeline clears for rendering: those of an ALTER TABLE
\* handed to alter-wrapper at or above a positive alter-wrapper-min-size.
ClearsClauses ==
    /\ AlterWrapperCase
    /\ MinSize > 0
    /\ tableSize >= MinSize

====
